---- MODULE Spec2Model ----
(***************************************************************************)
(* Model of the summurai_server HTTP relay (src/app.js, identical logic in *)
(* src/unnamed/part_000): the three POST handlers, the payload sniffing of *)
(* /buffer-to-text, arrayBufferToText, blobObjectToText and                *)
(* summarizeTextWithAPI.  pdf-parse and the chat-completion endpoint are   *)
(* external: their outcomes are chosen nondeterministically.               *)
(*                                                                         *)
(* JavaScript strings that the code inspects (trim, base64, JSON.parse)    *)
(* are sequences of one-character strings; byte buffers are sequences of   *)
(* integers 0..255; error messages are TLA+ strings.                       *)
(***************************************************************************)
EXTENDS Integers, Sequences, FiniteSets, TLC

\* Number of request slots that may be in flight at the same time.
MaxReq == 2

----------------------------------------------------------------------------
(* JavaScript / JSON values *)

Absent == [k |-> "absent"]
Null == [k |-> "null"]
Obj == [k |-> "obj"]
Bool(b) == [k |-> "bool", v |-> b]
Num(n) == [k |-> "num", v |-> n]
Str(s) == [k |-> "str", v |-> s]
Arr(a) == [k |-> "arr", v |-> a]
\* a Node Buffer holding the bytes b
Buf(b) == [k |-> "buf", v |-> b]
\* an express-fileupload file object; its .data is a Buffer
File(b) == [k |-> "file", data |-> Buf(b)]

Nums(ns) == Arr([i \in 1..Len(ns) |-> Num(ns[i])])

\* a test that only asks whether the value is there (x !== undefined)
TruthyDefinedOnly(x) == x.k # "absent"

\* JavaScript truthiness of a value (the `!x` and `x ? a : b` tests)
Truthy(x) ==
  CASE x.k = "absent" -> FALSE
    [] x.k = "null" -> FALSE
    [] x.k = "bool" -> x.v
    [] x.k = "num" -> x.v # 0
    [] x.k = "str" -> x.v # <<>>
    [] OTHER -> TRUE

\* the operand test of `??`
Nullish(x) == x.k \in {"absent", "null"}

----------------------------------------------------------------------------
(* Characters *)

Digits == <<"0", "1", "2", "3", "4", "5", "6", "7", "8", "9">>

IsDigit(c) == \E i \in 1..10 : Digits[i] = c

DigitVal(c) == (CHOOSE i \in 1..10 : Digits[i] = c) - 1

\* white space removed by String.prototype.trim and skipped by JSON.parse
IsSpace(c) == c \in {" ", "\n", "\t", "\r"}

RECURSIVE TrimLeft(_)
TrimLeft(s) ==
  IF s # <<>> /\ IsSpace(Head(s)) THEN TrimLeft(Tail(s)) ELSE s

RECURSIVE TrimRight(_)
TrimRight(s) ==
  IF s # <<>> /\ IsSpace(s[Len(s)])
  THEN TrimRight(SubSeq(s, 1, Len(s) - 1))
  ELSE s

\* String.prototype.trim
Trim(s) == TrimRight(TrimLeft(s))

\* String(n) for the non-negative integers used in template strings
RECURSIVE NumToStr(_)
NumToStr(n) ==
  IF n < 10 THEN <<Digits[n + 1]>>
  ELSE NumToStr(n \div 10) \o <<Digits[(n % 10) + 1]>>

\* the string a value contributes to a template literal `${x}`
ToStr(x) ==
  CASE x.k = "str" -> x.v
    [] x.k = "num" -> NumToStr(x.v)
    [] OTHER -> <<"?">>

----------------------------------------------------------------------------
(* Buffer.from(string, "base64") *)

B64Chars ==
  <<"A", "B", "C", "D", "E", "F", "G", "H", "I", "J", "K", "L", "M",
    "N", "O", "P", "Q", "R", "S", "T", "U", "V", "W", "X", "Y", "Z",
    "a", "b", "c", "d", "e", "f", "g", "h", "i", "j", "k", "l", "m",
    "n", "o", "p", "q", "r", "s", "t", "u", "v", "w", "x", "y", "z",
    "0", "1", "2", "3", "4", "5", "6", "7", "8", "9", "+", "/">>

IsB64Char(c) == c \in {"-", "_"} \/ \E i \in 1..Len(B64Chars) : B64Chars[i] = c

\* the six-bit value of a legal character ("-" and "_" are the url forms)
B64Index(c) ==
  CASE c = "-" -> 62
    [] c = "_" -> 63
    [] OTHER -> (CHOOSE i \in 1..Len(B64Chars) : B64Chars[i] = c) - 1

\* the part of s before the first "=": padding stops the decoder
RECURSIVE UpToPad(_)
UpToPad(s) ==
  IF s = <<>> \/ Head(s) = "=" THEN <<>>
  ELSE <<Head(s)>> \o UpToPad(Tail(s))

\* Node's decoder skips characters outside the alphabet, stops at "=",
\* and emits floor(6n/8) bytes for n legal characters.
Base64Decode(s) ==
  LET legal == SelectSeq(UpToPad(s), IsB64Char)
      q == [i \in 1..Len(legal) |-> B64Index(legal[i])]
      nbytes == (Len(q) * 6) \div 8
      byte(j) ==
        LET g == 4 * ((j - 1) \div 3)
            pos == (j - 1) % 3
        IN  CASE pos = 0 -> (q[g + 1] * 4 + q[g + 2] \div 16) % 256
              [] pos = 1 -> ((q[g + 2] % 16) * 16 + q[g + 3] \div 4) % 256
              [] OTHER -> ((q[g + 3] % 4) * 64 + q[g + 4]) % 256
  IN  [j \in 1..nbytes |-> byte(j)]

\* the bytes of the ASCII literal "%PDF"
PdfMagic == <<37, 80, 68, 70>>

\* maybeBuf.slice(0, 4).toString() === "%PDF"
LooksLikePdf(bytes) == Len(bytes) >= 4 /\ SubSeq(bytes, 1, 4) = PdfMagic

----------------------------------------------------------------------------
(* JSON.parse, for documents made of integers, null, true, false, quoted  *)
(* strings without escapes, {} and flat arrays of those scalars           *)

IsInt(s) ==
  LET d == IF s # <<>> /\ Head(s) = "-" THEN Tail(s) ELSE s
  IN  /\ d # <<>>
      /\ \A i \in 1..Len(d) : IsDigit(d[i])
      /\ (Len(d) = 1 \/ d[1] # "0")

RECURSIVE NatVal(_)
NatVal(d) ==
  IF d = <<>> THEN 0
  ELSE 10 * NatVal(SubSeq(d, 1, Len(d) - 1)) + DigitVal(d[Len(d)])

IntVal(s) == IF Head(s) = "-" THEN 0 - NatVal(Tail(s)) ELSE NatVal(s)

IsQuoted(s) ==
  /\ Len(s) >= 2
  /\ s[1] = "\"" /\ s[Len(s)] = "\""
  /\ \A i \in 2..(Len(s) - 1) : s[i] \notin {"\"", "\\", "\n", "\t", "\r"}

\* [ok |-> FALSE] stands for the SyntaxError JSON.parse throws
ParseScalar(s) ==
  CASE s = <<"n", "u", "l", "l">> -> [ok |-> TRUE, v |-> Null]
    [] s = <<"t", "r", "u", "e">> -> [ok |-> TRUE, v |-> Bool(TRUE)]
    [] s = <<"f", "a", "l", "s", "e">> -> [ok |-> TRUE, v |-> Bool(FALSE)]
    [] s = <<"{", "}">> -> [ok |-> TRUE, v |-> Obj]
    [] IsInt(s) -> [ok |-> TRUE, v |-> Num(IntVal(s))]
    [] IsQuoted(s) -> [ok |-> TRUE, v |-> Str(SubSeq(s, 2, Len(s) - 1))]
    [] OTHER -> [ok |-> FALSE, v |-> Absent]

\* the comma-separated pieces of s
RECURSIVE SplitComma(_, _)
SplitComma(s, cur) ==
  IF s = <<>> THEN <<cur>>
  ELSE IF Head(s) = "," THEN <<cur>> \o SplitComma(Tail(s), <<>>)
  ELSE SplitComma(Tail(s), Append(cur, Head(s)))

JSONParse(s) ==
  LET t == Trim(s)
  IN  IF Len(t) >= 2 /\ t[1] = "[" /\ t[Len(t)] = "]"
      THEN LET inner == Trim(SubSeq(t, 2, Len(t) - 1))
               parts == SplitComma(inner, <<>>)
               elems == [i \in 1..Len(parts) |-> ParseScalar(Trim(parts[i]))]
           IN  IF inner = <<>> THEN [ok |-> TRUE, v |-> Arr(<<>>)]
               ELSE IF \A i \in 1..Len(elems) : elems[i].ok
               THEN [ok |-> TRUE, v |-> Arr([i \in 1..Len(elems) |-> elems[i].v])]
               ELSE [ok |-> FALSE, v |-> Absent]
      ELSE ParseScalar(t)

\* Buffer.from(array): every element becomes Number(e) & 255
ToByte(e) ==
  CASE e.k = "num" -> e.v % 256
    [] e.k = "bool" -> IF e.v THEN 1 ELSE 0
    [] e.k = "str" -> IF IsInt(e.v) THEN IntVal(e.v) % 256 ELSE 0
    [] OTHER -> 0

BufferFrom(a) == [i \in 1..Len(a) |-> ToByte(a[i])]

----------------------------------------------------------------------------
(* Results of running a piece of code up to its next suspension point *)

\* res.status(status).json(body), the handler is finished
Send(status, body) == [k |-> "send", status |-> status, body |-> body]
\* an exception with this message
Throw(msg) == [k |-> "throw", msg |-> msg]
\* await pdfParse(buf), reached from the await site `site`
Parse(buf, site) == [k |-> "parse", buf |-> buf, site |-> site]
\* the handler goes on to summarizeTextWithAPI(text)
Sum(text) == [k |-> "sum", text |-> text]
\* a value returned
Ret(v) == [k |-> "ret", v |-> v]
\* await fetch(...) with this request body
Fetch(body) == [k |-> "fetch", body |-> body]

----------------------------------------------------------------------------
(* arrayBufferToText and blobObjectToText *)

\* the part of arrayBufferToText before `await pdfParse(buf)`
arrayBufferToText(x, site) ==
  CASE x.k = "buf" -> Parse(x.v, site)
    [] x.k = "arr" -> Parse(BufferFrom(x.v), site)
    [] x.k = "abuf" -> Parse(x.v, site)
    [] OTHER -> Throw("Unsupported input for arrayBufferToText")

\* `return pdfData.text ?? ""`
pdfDataText(pdfData) ==
  IF Nullish(pdfData.text) THEN Str(<<>>) ELSE pdfData.text

\* blobObjectToText; a Blob-like object is [k |-> "blob", ab |-> bytes],
\* whose arrayBuffer() resolves to an ArrayBuffer of those bytes
blobObjectToText(blob, site) ==
  CASE blob.k = "file" /\ blob.data.k = "buf" ->
         arrayBufferToText(blob.data, site)
    [] blob.k = "blob" ->
         arrayBufferToText([k |-> "abuf", v |-> blob.ab], site)
    [] blob.k \in {"buf", "abuf", "arr"} ->
         arrayBufferToText(blob, site)
    [] OTHER -> Throw("Unsupported blob type")

----------------------------------------------------------------------------
(* summarizeTextWithAPI *)

DefaultMaxTokens == 200

MissingKeyMsg == "OPENAI_API_KEY environment variable is not set"

\* the fixed lead of the user message, kept as one symbol
UserPrefix ==
  <<"Summarize the following text concisely (1-3 short paragraphs or bullet points):\n\n">>

\* summarizeTextWithAPI without the test of the key
summarizeStartUnchecked(text, apiKey) ==
  IF ~Truthy(text) THEN Ret(Str(<<>>))
  ELSE IF text.k # "str" THEN Throw("text.trim is not a function")
  ELSE IF Trim(text.v) = <<>> THEN Ret(Str(<<>>))
  ELSE Fetch([user |-> UserPrefix \o text.v,
              max_tokens |-> DefaultMaxTokens,
              bearer |-> apiKey])

\* the part of summarizeTextWithAPI before `await fetch(...)`
summarizeStart(text, apiKey) ==
  IF ~Truthy(text) THEN Ret(Str(<<>>))
  ELSE IF text.k # "str" THEN Throw("text.trim is not a function")
  ELSE IF Trim(text.v) = <<>> THEN Ret(Str(<<>>))
  ELSE IF ~Truthy(apiKey) THEN Throw(MissingKeyMsg)
  ELSE Fetch([user |-> UserPrefix \o text.v,
              max_tokens |-> DefaultMaxTokens,
              bearer |-> apiKey])

RECURSIVE Join(_)
Join(s) == IF s = <<>> THEN "" ELSE Head(s) \o Join(Tail(s))

\* `LLM API error: ${resp.status} ${errText}`
ApiErrorMsg(status, errText) ==
  "LLM API error: " \o Join(NumToStr(status)) \o " " \o errText

\* resp.ok
StatusOk(status) == status \in 200..299

\* the part of summarizeTextWithAPI after `await fetch(...)`.  A reply is
\*   [k |-> "neterr", msg]                      fetch rejected
\*   [k |-> "http", status, errText, json]      a response; json is
\*     [valid, content, text]: whether the body parses, and the values of
\*     choices[0].message.content and choices[0].text
summarizeFinish(reply) ==
  IF reply.k = "neterr" THEN Throw(reply.msg)
  ELSE IF ~StatusOk(reply.status)
  THEN Throw(ApiErrorMsg(reply.status, reply.errText))
  ELSE IF ~reply.json.valid THEN Throw("Unexpected end of JSON input")
  ELSE LET assistantMessage ==
             IF ~Nullish(reply.json.content) THEN reply.json.content
             ELSE IF ~Nullish(reply.json.text) THEN reply.json.text
             ELSE Str(<<>>)
       IN  IF assistantMessage.k = "str"
           THEN Ret(Str(Trim(assistantMessage.v)))
           ELSE Throw("assistantMessage.trim is not a function")

----------------------------------------------------------------------------
(* The POST handlers up to their first suspension point.  A request is    *)
(* [route, file, buffer, blob, text, context]: req.files.file and the     *)
(* fields of req.body, Absent where the request does not carry them.      *)

\* POST /buffer-to-text without the test of `buffer`
bufferToTextStartNoCheck(req) ==
  LET buffer == req.buffer
  IN  IF buffer.k = "str"
      THEN LET maybeBuf == Base64Decode(buffer.v)
           IN  IF LooksLikePdf(maybeBuf)
               THEN arrayBufferToText(Buf(maybeBuf), "pdf")
               ELSE LET parsed == JSONParse(buffer.v)
                    IN  IF ~parsed.ok THEN Sum(buffer)
                        ELSE IF parsed.v.k = "arr"
                        THEN arrayBufferToText(parsed.v, "json")
                        ELSE Sum(Absent)
      ELSE arrayBufferToText(buffer, "raw")

\* POST /buffer-to-text without the %PDF sniff
bufferToTextStartNoSniff(req) ==
  LET buffer == req.buffer
  IN  IF ~Truthy(buffer)
      THEN Send(400, [error |-> "buffer required in body"])
      ELSE IF buffer.k = "str"
      THEN LET parsed == JSONParse(buffer.v)
           IN  IF ~parsed.ok THEN Sum(buffer)
               ELSE IF parsed.v.k = "arr"
               THEN arrayBufferToText(parsed.v, "json")
               ELSE Sum(Absent)
      ELSE arrayBufferToText(buffer, "raw")

\* POST /buffer-to-text
bufferToTextStart(req) ==
  LET buffer == req.buffer
  IN  IF ~Truthy(buffer)
      THEN Send(400, [error |-> "buffer required in body"])
      ELSE IF buffer.k = "str"
      THEN LET maybeBuf == Base64Decode(buffer.v)
           IN  IF LooksLikePdf(maybeBuf)
               THEN arrayBufferToText(Buf(maybeBuf), "pdf")
               ELSE LET parsed == JSONParse(buffer.v)
                    IN  IF ~parsed.ok THEN Sum(buffer)
                        ELSE IF parsed.v.k = "arr"
                        THEN arrayBufferToText(parsed.v, "json")
                        ELSE Sum(Absent)
      ELSE arrayBufferToText(buffer, "raw")

\* POST /blob-to-text
blobToTextStart(req) ==
  IF Truthy(req.file) THEN blobObjectToText(req.file, "file")
  ELSE IF ~Truthy(req.blob)
  THEN Send(400, [error |-> "file (multipart) or blob (JSON) required"])
  ELSE blobObjectToText(req.blob, "blob")

\* POST /summarize
summarizeRouteStart(req) ==
  IF ~Truthy(req.text) THEN Send(400, [error |-> "text required"])
  ELSE IF Truthy(req.context)
  THEN Sum(Str(ToStr(req.context) \o <<"\n", "\n">> \o ToStr(req.text)))
  ELSE Sum(req.text)

handlerStart(req) ==
  CASE req.route = "/buffer-to-text" -> bufferToTextStart(req)
    [] req.route = "/blob-to-text" -> blobToTextStart(req)
    [] OTHER -> summarizeRouteStart(req)

\* the `||` operand of each catch block
FallbackMsg(route) ==
  CASE route = "/buffer-to-text" -> "Failed to parse buffer"
    [] route = "/blob-to-text" -> "Failed to parse blob"
    [] OTHER -> "Failed to summarize"

\* a catch block that logs the error and sends nothing
catchBlockSilent(route, msg) == <<>>

\* the responses a catch block sends for an error with this message
catchBlock(route, msg) ==
  <<[status |-> 500,
     body |-> [error |-> IF msg # "" THEN msg ELSE FallbackMsg(route)]]>>

\* the body of the success response
successBody(route, text, summary) ==
  IF route = "/summarize" THEN [summary |-> summary]
  ELSE [text |-> text, summary |-> summary]

----------------------------------------------------------------------------
(* State *)

\* tasks[r] is the handler invocation in request slot r: its position pc,
\* the request, the handler's local `text` (`extracted`, `promptText`),
\* the await site it is suspended at, and a record of what it did:
\*   extArg  the buffers handed to pdfParse      extOut  what pdfParse gave
\*   sumArg  the texts given to summarizeTextWithAPI
\*   netReq  the requests sent to the endpoint   netOut  the replies
\*   raised  the messages of the exceptions raised
\*   resp    the responses sent
\* apiKey is process.env.OPENAI_API_KEY.
VARIABLES tasks, apiKey

vars == <<tasks, apiKey>>

Slots == 1..MaxReq

NoRequest ==
  [route |-> "none", file |-> Absent, buffer |-> Absent, blob |-> Absent,
   text |-> Absent, context |-> Absent]

NewTask(req) ==
  [pc |-> "run", req |-> req, text |-> Absent, site |-> "none",
   extArg |-> <<>>, extOut |-> <<>>, sumArg |-> <<>>,
   netReq |-> <<>>, netOut |-> <<>>, raised |-> <<>>, resp |-> <<>>]

IdleTask == [NewTask(NoRequest) EXCEPT !.pc = "idle"]

\* an assignment to a variable declared outside the handler
SetTextShared(ts, r, t) == [q \in DOMAIN ts |-> [ts[q] EXCEPT !.text = t]]

\* an assignment to the handler's own local variable
SetText(ts, r, t) == [ts EXCEPT ![r].text = t]

\* the handler sends these responses and returns
respond(t, responses) ==
  [t EXCEPT !.pc = "done", !.resp = @ \o responses]

\* an exception reaches the handler's catch block
fail(t, msg) ==
  respond([t EXCEPT !.raised = Append(@, msg)], catchBlock(t.req.route, msg))

\* res.json(...) after summarizeTextWithAPI returned
finish(t, summary) ==
  respond(t, <<[status |-> 200,
                body |-> successBody(t.req.route, t.text, summary)]>>)

\* `await summarizeTextWithAPI(text)` up to its suspension or its end
summarize(t, key) ==
  LET s == summarizeStart(t.text, key)
      t1 == [t EXCEPT !.sumArg = Append(@, t.text)]
  IN  CASE s.k = "ret" -> finish(t1, s.v)
        [] s.k = "throw" -> fail(t1, s.msg)
        [] OTHER -> [t1 EXCEPT !.pc = "fetch", !.netReq = Append(@, s.body)]

\* where a rejection of `await arrayBufferToText(...)` lands: the call at
\* the "json" site sits inside the try whose catch assigns text = buffer
afterExtractFailure(site, req, msg) ==
  IF site = "json" THEN Sum(req.buffer) ELSE Throw(msg)

----------------------------------------------------------------------------
(* Inputs *)

Request(route, file, buffer, blob, text, context) ==
  [route |-> route, file |-> file, buffer |-> buffer, blob |-> blob,
   text |-> text, context |-> context]

BufferStrings ==
  { <<"J", "V", "B", "E", "R", "i", "0", "x">>,
    <<"J", "V", "B", "E", "R", "g", "=", "=">>,
    <<" ", "J", "V", "B", "E", "R", "i", "0", "x">>,
    <<"J", "V", "B", "E">>,
    <<"[", "1", ",", "2", "]">>,
    <<"[", "]">>,
    <<"[", "1", ",">>,
    <<"1", "2">>,
    <<"h", "i">>,
    <<" ">>,
    <<>> }

BufferValues ==
  {Absent, Null, Bool(FALSE), Num(0), Num(5), Obj, Arr(<<>>),
   Nums(<<37, 80, 68, 70>>)}
    \cup {Str(s) : s \in BufferStrings}

FileValues == {File(<<37, 80, 68, 70>>), File(<<>>)}

BlobValues == {Absent, Null, Obj, Str(<<"h", "i">>), Nums(<<1>>)}

TextValues ==
  {Absent, Num(0), Num(5), Str(<<>>), Str(<<" ">>), Str(<<"h", "i">>)}

ContextValues == {Absent, Str(<<>>), Str(<<"c">>)}

Requests ==
  {Request("/buffer-to-text", Absent, b, Absent, Absent, Absent) :
     b \in BufferValues}
    \cup {Request("/blob-to-text", f, Absent, Absent, Absent, Absent) :
            f \in FileValues}
    \cup {Request("/blob-to-text", Absent, Absent, b, Absent, Absent) :
            b \in BlobValues}
    \cup {Request("/summarize", Absent, Absent, Absent, t, c) :
            t \in TextValues, c \in ContextValues}

\* what pdfParse may resolve to, and the messages it may reject with
PdfResults ==
  {[text |-> Str(<<"T">>)], [text |-> Str(<<" ">>)], [text |-> Absent]}

PdfErrors == {"bad XRef entry"}

Json(content, text) == [valid |-> TRUE, content |-> content, text |-> text]

HttpReply(status, errText, json) ==
  [k |-> "http", status |-> status, errText |-> errText, json |-> json]

\* what the endpoint may answer
Replies ==
  { HttpReply(200, "", Json(Str(<<" ", "S", "\n">>), Absent)),
    HttpReply(200, "", Json(Absent, Str(<<"L">>))),
    HttpReply(200, "", Json(Absent, Absent)),
    HttpReply(200, "", Json(Num(7), Absent)),
    HttpReply(200, "", [valid |-> FALSE, content |-> Absent, text |-> Absent]),
    HttpReply(401, "denied", Json(Absent, Absent)),
    HttpReply(500, "", Json(Absent, Absent)),
    [k |-> "neterr", msg |-> "fetch failed"] }

\* unset, empty, set
ApiKeys == {Absent, Str(<<>>), Str(<<"k">>)}

----------------------------------------------------------------------------
(* Actions *)

Init ==
  /\ tasks = [r \in Slots |-> IdleTask]
  /\ apiKey \in ApiKeys

\* a request arrives in a free slot; its handler runs to its first
\* suspension point or to its response
Receive(r, req) ==
  /\ tasks[r].pc \in {"idle", "done"}
  /\ LET st == handlerStart(req)
         t0 == NewTask(req)
         ts == SetText([tasks EXCEPT ![r] = t0], r, st.text)
     IN  tasks' =
           CASE st.k = "send" ->
                  [tasks EXCEPT ![r] =
                     respond(t0, <<[status |-> st.status, body |-> st.body]>>)]
             [] st.k = "throw" -> [tasks EXCEPT ![r] = fail(t0, st.msg)]
             [] st.k = "parse" ->
                  [tasks EXCEPT ![r] =
                     [t0 EXCEPT !.pc = "extract", !.site = st.site,
                                !.extArg = <<st.buf>>]]
             [] OTHER -> [ts EXCEPT ![r] = summarize(ts[r], apiKey)]
  /\ UNCHANGED apiKey

\* pdfParse resolves; the handler goes on into summarizeTextWithAPI
ExtractorReturns(r, pdfData) ==
  /\ tasks[r].pc = "extract"
  /\ LET logged == [tasks EXCEPT ![r].extOut =
                      Append(@, [ok |-> TRUE, data |-> pdfData, msg |-> ""])]
         ts == SetText(logged, r, pdfDataText(pdfData))
     IN  tasks' = [ts EXCEPT ![r] = summarize(ts[r], apiKey)]
  /\ UNCHANGED apiKey

\* pdfParse rejects
ExtractorFails(r, msg) ==
  /\ tasks[r].pc = "extract"
  /\ LET t == tasks[r]
         logged == [tasks EXCEPT ![r].extOut =
                      Append(@, [ok |-> FALSE, data |-> [text |-> Absent],
                                 msg |-> msg]),
                    ![r].raised = Append(@, msg)]
         st == afterExtractFailure(t.site, t.req, msg)
         ts == SetText(logged, r, st.text)
     IN  tasks' =
           IF st.k = "throw"
           THEN [logged EXCEPT ![r] =
                   respond(logged[r], catchBlock(t.req.route, st.msg))]
           ELSE [ts EXCEPT ![r] = summarize(ts[r], apiKey)]
  /\ UNCHANGED apiKey

\* fetch settles; summarizeTextWithAPI and the handler run to the end
FetchReplies(r, reply) ==
  /\ tasks[r].pc = "fetch"
  /\ LET s == summarizeFinish(reply)
         t1 == [tasks[r] EXCEPT !.netOut = Append(@, reply)]
     IN  tasks' = [tasks EXCEPT ![r] =
                     IF s.k = "ret" THEN finish(t1, s.v) ELSE fail(t1, s.msg)]
  /\ UNCHANGED apiKey

\* the server handling one request after another, over all inputs
Next ==
  \/ \E req \in Requests : Receive(1, req)
  \/ \E pdfData \in PdfResults : ExtractorReturns(1, pdfData)
  \/ \E msg \in PdfErrors : ExtractorFails(1, msg)
  \/ \E reply \in Replies : FetchReplies(1, reply)

Spec == Init /\ [][Next]_vars

----------------------------------------------------------------------------
(* Vocabulary of the properties *)

Started(t) == t.pc # "idle"

Done(t) == t.pc = "done"

\* the only response of a finished task
Response(t) == t.resp[1]

Answered(t, status) ==
  Done(t) /\ Len(t.resp) = 1 /\ Response(t).status = status

IsBlank(x) == x.k = "str" /\ Trim(x.v) = <<>>

NonBlank(x) == x.k = "str" /\ Trim(x.v) # <<>>

\* the falsy values a JSON body can carry, and a field that is missing
JsFalsy(x) == x \in {Absent, Null, Bool(FALSE), Num(0), Str(<<>>)}

\* the required field of the request is missing
RequiredMissing(req) ==
  CASE req.route = "/buffer-to-text" -> req.buffer = Absent
    [] req.route = "/blob-to-text" -> req.file = Absent /\ req.blob = Absent
    [] OTHER -> req.text = Absent

\* the required field of the request is missing or falsy
RequiredFalsy(req) ==
  CASE req.route = "/buffer-to-text" -> JsFalsy(req.buffer)
    [] req.route = "/blob-to-text" -> JsFalsy(req.file) /\ JsFalsy(req.blob)
    [] OTHER -> JsFalsy(req.text)

IsJsonNumericArray(s) ==
  LET p == JSONParse(s)
  IN  /\ p.ok
      /\ p.v.k = "arr"
      /\ \A i \in 1..Len(p.v.v) : p.v.v[i].k = "num"

----------------------------------------------------------------------------
(* C1 *)

\* C1: summarizing a text that is empty or whitespace-only returns the
\* empty string and sends nothing to the endpoint, whatever the context:
\* for summarizeTextWithAPI (the text it is given) and for POST /summarize
\* (the `text` field, with any `context`).
C1_BlankTextNoRequest ==
  \A r \in Slots :
    LET t == tasks[r]
    IN  /\ (t.sumArg # <<>> /\ IsBlank(t.sumArg[1])) =>
             /\ t.netReq = <<>>
             /\ Answered(t, 200)
             /\ Response(t).body.summary = Str(<<>>)
        /\ (Started(t) /\ t.req.route = "/summarize" /\ IsBlank(t.req.text)) =>
             /\ t.netReq = <<>>
             /\ Answered(t, 200) => Response(t).body = [summary |-> Str(<<>>)]

----------------------------------------------------------------------------
(* C2 *)

\* C2: in POST /buffer-to-text a (non-empty) string whose base64 decode
\* does not begin with %PDF and which is not a JSON numeric array is plain
\* text: pdfParse is not invoked, the string is what summarizeTextWithAPI
\* is given, and a success response carries it as `text`.
C2_NonPdfStringIsPlainText ==
  \A r \in Slots :
    LET t == tasks[r]
        b == t.req.buffer
    IN  ( /\ Started(t)
          /\ t.req.route = "/buffer-to-text"
          /\ b.k = "str" /\ b.v # <<>>
          /\ ~LooksLikePdf(Base64Decode(b.v))
          /\ ~IsJsonNumericArray(b.v) ) =>
          /\ t.extArg = <<>>
          /\ t.sumArg = <<b>>
          /\ Answered(t, 200) => Response(t).body.text = b

----------------------------------------------------------------------------
(* C3 *)

\* C3: with OPENAI_API_KEY unset or empty, summarizing a non-blank text
\* sends nothing to the endpoint and fails with the missing-credential
\* error, which the handler answers as a 500 carrying that message.
C3_NoKeyNoRequest ==
  \A r \in Slots :
    LET t == tasks[r]
    IN  ( /\ apiKey \in {Absent, Str(<<>>)}
          /\ t.sumArg # <<>>
          /\ NonBlank(t.sumArg[1]) ) =>
          /\ t.netReq = <<>>
          /\ t.resp =
               <<[status |-> 500,
                  body |-> [error |->
                    "OPENAI_API_KEY environment variable is not set"]]>>
          /\ Done(t)

\* a non-blank text reached summarizeTextWithAPI while no key was set
C3_Witness ==
  \E r \in Slots :
    /\ apiKey = Absent
    /\ Done(tasks[r])
    /\ tasks[r].sumArg # <<>>
    /\ NonBlank(tasks[r].sumArg[1])
    /\ tasks[r].req.route = "/buffer-to-text"

----------------------------------------------------------------------------
(* C4 *)

\* C4: a request whose required body field is absent is answered with 400
\* and a descriptive error ({"error":"buffer required in body"} for
\* /buffer-to-text); neither pdfParse nor the endpoint is invoked.
C4_MissingFieldIs400 ==
  \A r \in Slots :
    LET t == tasks[r]
    IN  (Started(t) /\ RequiredMissing(t.req)) =>
          /\ Answered(t, 400)
          /\ DOMAIN Response(t).body = {"error"}
          /\ Response(t).body.error # ""
          /\ t.req.route = "/buffer-to-text" =>
               Response(t).body = [error |-> "buffer required in body"]
          /\ t.extArg = <<>>
          /\ t.netReq = <<>>
          /\ t.sumArg = <<>>

\* POST /buffer-to-text has answered a request without `buffer`
C4_Witness ==
  \E r \in Slots :
    /\ Done(tasks[r])
    /\ tasks[r].req.route = "/buffer-to-text"
    /\ tasks[r].req.buffer = Absent
    /\ Response(tasks[r]).status = 400

----------------------------------------------------------------------------
(* C5 *)

----------------------------------------------------------------------------
(* C6 *)

\* C6: every failure raised while a request is handled reaches the
\* handler boundary: the request is answered with a 500 whose error is
\* the message of the failure that ended it, and a request in which a
\* stage failed is never answered with a 200.
C6_FailuresReach500 ==
  \A r \in Slots :
    LET t == tasks[r]
    IN  (Done(t) /\ t.raised # <<>>) =>
          t.resp =
            <<[status |-> 500, body |-> [error |-> t.raised[Len(t.raised)]]]>>

----------------------------------------------------------------------------
(* C7 *)

\* the text of a reply of the endpoint: content, else text, else ""
ReplyText(reply) ==
  IF reply.json.content.k = "str" THEN Trim(reply.json.content.v)
  ELSE IF reply.json.text.k = "str" THEN Trim(reply.json.text.v)
  ELSE <<>>

\* C7: in POST /buffer-to-text a string whose base64 decode begins with
\* %PDF is decoded and the decoded bytes, unchanged, are what pdfParse is
\* given; the string is never summarized as plain text nor parsed as an
\* array; a success response carries the extractor's text and the summary
\* the summarizer made of that text.
C7_PdfBytesToExtractor ==
  \A r \in Slots :
    LET t == tasks[r]
        b == t.req.buffer
    IN  ( /\ Started(t)
          /\ t.req.route = "/buffer-to-text"
          /\ b.k = "str"
          /\ LooksLikePdf(Base64Decode(b.v)) ) =>
          /\ t.extArg = <<Base64Decode(b.v)>>
          /\ b.v = <<"J", "V", "B", "E", "R", "i", "0", "x">> =>
               t.extArg = <<<<37, 80, 68, 70, 45, 49>>>>
          /\ t.site = "pdf"
          /\ \A i \in 1..Len(t.sumArg) : t.sumArg[i] # b
          /\ Answered(t, 200) =>
               /\ t.extOut # <<>> /\ t.extOut[1].ok
               /\ Response(t).body.text =
                    IF t.extOut[1].data.text.k = "str"
                    THEN t.extOut[1].data.text
                    ELSE Str(<<>>)
               /\ t.sumArg = <<Response(t).body.text>>
               /\ t.netReq = <<>> =>
                    /\ IsBlank(Response(t).body.text)
                    /\ Response(t).body.summary = Str(<<>>)
               /\ t.netReq # <<>> =>
                    /\ t.netReq[1].user = UserPrefix \o Response(t).body.text.v
                    /\ Response(t).body.summary = Str(ReplyText(t.netOut[1]))

\* a base64 PDF was extracted and summarized through the endpoint
C7_Witness ==
  \E r \in Slots :
    /\ Answered(tasks[r], 200)
    /\ tasks[r].req.route = "/buffer-to-text"
    /\ tasks[r].req.buffer = Str(<<"J", "V", "B", "E", "R", "i", "0", "x">>)
    /\ tasks[r].extArg = <<<<37, 80, 68, 70, 45, 49>>>>
    /\ Response(tasks[r]).body = [text |-> Str(<<"T">>), summary |-> Str(<<"S">>)]

----------------------------------------------------------------------------
(* C9 *)

\* C9: within one request pdfParse is invoked at most once, the endpoint
\* receives at most one request, and that request is sent only after the
\* extraction has succeeded, never after a failed extraction.
C9_StagesInOrderNoRetry ==
  \A r \in Slots :
    LET t == tasks[r]
    IN  /\ Len(t.extArg) <= 1
        /\ Len(t.netReq) <= 1
        /\ Len(t.netOut) <= Len(t.netReq)
        /\ t.netReq # <<>> =>
             /\ Len(t.extOut) = Len(t.extArg)
             /\ \A i \in 1..Len(t.extOut) : t.extOut[i].ok

----------------------------------------------------------------------------
(* Concurrent requests: every slot may hold a request in flight; the      *)
(* inputs are a few representative ones, different from each other        *)

ConcRequests ==
  { Request("/buffer-to-text", Absent, Str(<<"[", "1", ",", "2", "]">>),
            Absent, Absent, Absent),
    Request("/buffer-to-text", Absent, Absent, Absent, Absent, Absent),
    Request("/blob-to-text", File(<<37, 80, 68, 70>>), Absent, Absent,
            Absent, Absent),
    Request("/summarize", Absent, Absent, Absent, Str(<<"h", "i">>),
            Str(<<"c">>)) }

ConcPdfResults == {[text |-> Str(<<"T">>)]}

ConcReplies ==
  { HttpReply(200, "", Json(Str(<<" ", "S", "\n">>), Absent)),
    HttpReply(401, "denied", Json(Absent, Absent)) }

ConcReceive(r) == \E req \in ConcRequests : Receive(r, req)

ConcExtractorReturns(r) ==
  \E pdfData \in ConcPdfResults : ExtractorReturns(r, pdfData)

ConcExtractorFails(r) == \E msg \in PdfErrors : ExtractorFails(r, msg)

ConcFetchReplies(r) == \E reply \in ConcReplies : FetchReplies(r, reply)

ConcNext ==
  \/ \E r \in Slots : ConcReceive(r)
  \/ \E r \in Slots : ConcExtractorReturns(r)
  \/ \E r \in Slots : ConcExtractorFails(r)
  \/ \E r \in Slots : ConcFetchReplies(r)

ConcSpec == Init /\ [][ConcNext]_vars

\* every call of pdfParse and every fetch that was started settles
FairSpec ==
  /\ Init
  /\ [][ConcNext]_vars
  /\ \A r \in Slots :
       /\ WF_vars(ConcExtractorReturns(r) \/ ConcExtractorFails(r))
       /\ WF_vars(ConcFetchReplies(r))

----------------------------------------------------------------------------
(* C8 *)

\* the responses of summarizeTextWithAPI(text) and what follows it, for a
\* request handled on its own, given the reply of the endpoint
AloneAfterSum(req, key, text, netOut) ==
  LET s == summarizeStart(text, key)
      ok(summary) ==
        <<[status |-> 200, body |-> successBody(req.route, text, summary)]>>
  IN  CASE s.k = "ret" -> ok(s.v)
        [] s.k = "throw" -> catchBlock(req.route, s.msg)
        [] OTHER ->
             LET f == summarizeFinish(netOut[1])
             IN  IF f.k = "ret" THEN ok(f.v)
                 ELSE catchBlock(req.route, f.msg)

\* the responses to a request handled on its own with this payload, key,
\* extractor outcome and endpoint reply
Alone(req, key, extOut, netOut) ==
  LET st == handlerStart(req)
  IN  CASE st.k = "send" -> <<[status |-> st.status, body |-> st.body]>>
        [] st.k = "throw" -> catchBlock(req.route, st.msg)
        [] st.k = "sum" -> AloneAfterSum(req, key, st.text, netOut)
        [] OTHER ->
             IF extOut[1].ok
             THEN AloneAfterSum(req, key, pdfDataText(extOut[1].data), netOut)
             ELSE LET a == afterExtractFailure(st.site, req, extOut[1].msg)
                  IN  IF a.k = "throw" THEN catchBlock(req.route, a.msg)
                      ELSE AloneAfterSum(req, key, a.text, netOut)

\* C8: whatever the interleaving of the requests in flight, the response
\* to each request is the one it would get handled alone with the same
\* payload, key, extractor outcome and endpoint reply.
C8_RequestsIsolated ==
  \A r \in Slots :
    LET t == tasks[r]
    IN  Done(t) => t.resp = Alone(t.req, apiKey, t.extOut, t.netOut)

\* a request was answered after its extraction while another request,
\* with another text, is waiting for the endpoint
C8_Witness ==
  \E r, q \in Slots :
    /\ r # q
    /\ Answered(tasks[r], 200)
    /\ tasks[r].extOut # <<>>
    /\ tasks[r].netOut # <<>>
    /\ tasks[q].pc = "fetch"
    /\ tasks[q].text # tasks[r].text

----------------------------------------------------------------------------
(* C10 *)

\* C10: every request is answered exactly once: a task that has finished
\* has sent one response, a task that has not finished has sent none, and,
\* when every extractor call and endpoint call settles, a request that was
\* received is eventually answered.
C10_AnsweredExactlyOnce ==
  /\ [](\A r \in Slots :
          /\ Done(tasks[r]) => Len(tasks[r].resp) = 1
          /\ ~Done(tasks[r]) => tasks[r].resp = <<>>)
  /\ \A r \in Slots :
       Started(tasks[r]) ~> (Done(tasks[r]) /\ Len(tasks[r].resp) = 1)

\* one request was answered on the 500 path after an endpoint reply, another on
\* the 200 path after an extraction
C10_Witness ==
  \E r, q \in Slots :
    /\ Answered(tasks[r], 500)
    /\ tasks[r].netOut # <<>>
    /\ Answered(tasks[q], 200)
    /\ tasks[q].extOut # <<>>

====
